---- MODULE Spec2Model ----
(***************************************************************************)
(* Round scheduler, outcome queue and broadcast hub of the JetPesa crash   *)
(* game server (src/server.js), in its queue-based variant (lines 1-1341)  *)
(* and its replay-pool variant (lines 1343-2052).                          *)
(*                                                                         *)
(* Multipliers are JavaScript numbers with up to three decimals; they are  *)
(* kept in thousandths (1.50 is 1500).  NaN is a value of its own.  Time   *)
(* is kept relative: a tick interval carries the whole seconds elapsed     *)
(* since its round's startTime, and the two deadlines are kept as the      *)
(* symbolic stamps "now+WAIT_MS" and "now+CRASH_PAUSE".                    *)
(***************************************************************************)
EXTENDS Integers, Sequences, FiniteSets, TLC

VARIABLES
    variant,      \* "queue" (server.js:1-1341) or "pool" (server.js:1343-2052)
    game,         \* let game = {roundId, status, multiplier, startTime, crashPoint, nextEventTime}
    crashQueue,   \* const crashQueue = []   [{id, multiplier}]   (queue variant)
    nextOid,      \* next fresh outcome id (crypto.randomUUID() of fillQueue)
    CRASH_POOL,   \* const CRASH_POOL = [...]                     (pool variant)
    queueIdx,     \* let queueIdx                                 (pool variant)
    history,      \* const history = [...]   [{id, multiplier}], most recent first
    clients,      \* const clients = new Set()   the subscribed observers
    nextObs,      \* next fresh observer handle (one per /api/stream connection)
    rcvd,         \* per observer: the last scheduler event it received
    flyTimers,    \* pending setTimeout(startFlying, WAIT_MS)
    waitTimers,   \* pending setTimeout(startWaiting, CRASH_PAUSE)
    tickTimers,   \* live setInterval tick callbacks: the roundId each captured
    elapsed,      \* Date.now() - game.startTime while flying, in whole seconds
    injects,      \* accepted /api/admin/crash-pool requests so far
    forces,       \* accepted /api/admin/force-crash requests so far
    injected,     \* the elements of the last accepted body.pool not yet drawn
    out,          \* the events broadcast by the last handler that ran
    resp,         \* the HTTP response of the last handler that ran
    users,        \* const users = new Map()   token -> user (its id)
    dbUsers,      \* db.users   the user objects, in order of creation
    transactions, \* db.transactions   the ledger
    pendingDeposits, \* const pendingDeposits = new Map()   key -> {userId, token, amount}
    nextToken,    \* next fresh access token ('tok_' + randomBytes)
    nextDeposit   \* next fresh transaction_request_id the payment provider issues

vars == <<variant, game, crashQueue, nextOid, CRASH_POOL, queueIdx, history,
          clients, nextObs, rcvd, flyTimers, waitTimers, tickTimers, elapsed,
          injects, forces, injected, out, resp,
          users, dbUsers, transactions, pendingDeposits, nextToken, nextDeposit>>

\* the accounts, the ledger and the deposits awaiting confirmation
wallet == <<users, dbUsers, transactions, pendingDeposits, nextToken, nextDeposit>>

-----------------------------------------------------------------------------
(* Program constants *)

QUEUE_SIZE == 10
HISTORY_CAP == 20

(* Bounds of the model *)

\* rounds started (round ids 1..MaxRounds)
MaxRounds == 3
\* The tick callbacks that are followed are TickSeconds, 2 * TickSeconds, ...
\* MaxSkip * TickSeconds apart (the callback recomputes the multiplier from
\* Date.now() - startTime, whatever the time since the firing before it).
TickSeconds == 4
MaxSkip == 2
\* accepted crash-pool injections
MaxInjects == 1
\* accepted forced crashes
MaxForces == 1
\* rounds started in the runs that fill the history ring
HistoryRounds == 7
\* /api/stream connections opened over the run
MaxClients == 1
\* /api/stream connections opened over the runs that follow the observers
HubClients == 2
\* access tokens issued (signups and logins)
MaxTokens == 3
\* deposits initiated with the payment provider
MaxDeposits == 1
\* ledger entries recorded
MaxTx == 2

-----------------------------------------------------------------------------
(* JavaScript numbers *)

NaN == 0 - 1

\* a >= b on numbers: every comparison with NaN is false
Geq(a, b) == a # NaN /\ b # NaN /\ a >= b

\* Math.min(a, b)
MathMin(a, b) == IF a = NaN \/ b = NaN THEN NaN ELSE IF a < b THEN a ELSE b

\* A JSON value of a request body: a number, a non-numeric text, or absent.
Num(n) == [kind |-> "number", num |-> n]
Text == [kind |-> "text", num |-> 0]
Missing == [kind |-> "missing", num |-> 0]

\* parseFloat(x): the number itself, NaN for a text without a numeric prefix
\* and for undefined/null
parseFloat(x) == IF x.kind = "number" THEN x.num ELSE NaN

\* v || d : NaN and 0 are falsy
OrDefault(v, d) == IF v = NaN \/ v = 0 THEN d ELSE v

\* parseFloat(v.toFixed(2)): v rounded to two decimals (NaN stays NaN; the
\* values followed have no third decimal 5, where the binary value decides)
toFixed2(v) == IF v = NaN THEN NaN ELSE ((v + 5) \div 10) * 10

-----------------------------------------------------------------------------
(* Outcome generator and multiplier curve *)

\* generateCrashPoint(): a two-decimal value of [1.01, 550.00]; the values the
\* random source is let to produce here.
GenValues == {1530}

generateCrashPoint == GenValues

\* Math.round(100 * (1 + 0.0055 * Math.pow(s, 2.2))) for s = 0, 1, ..., 60 whole
\* seconds.
CurveTable ==
    <<100, 101, 103, 106, 112, 119, 128, 140, 153, 169,
      187, 208, 230, 255, 283, 313, 345, 380, 418, 458,
      501, 546, 594, 645, 698, 754, 813, 875, 940, 1007,
      1077, 1150, 1226, 1305, 1387, 1472, 1560, 1650, 1744, 1841,
      1940, 2043, 2149, 2258, 2370, 2485, 2603, 2724, 2848, 2976,
      3107, 3241, 3378, 3518, 3661, 3808, 3958, 4111, 4268, 4428, 4591>>

\* the last second the table covers; the clock of a flight stops there
Horizon == Len(CurveTable) - 1

\* Math.round(100 * ...) / 100
getMultiplierAtTime(seconds) == 10 * CurveTable[seconds + 1]

-----------------------------------------------------------------------------
(* Outcome queue (queue variant) and replay pool (pool variant) *)

\* how many entries fillQueue's while loop pushes
Need(q) == IF Len(q) < QUEUE_SIZE THEN QUEUE_SIZE - Len(q) ELSE 0

\* the generator's draws for n pushes
Draws(n) == [1..n -> generateCrashPoint]

\* (variant of fillQueue that stops one entry short of QUEUE_SIZE)
fillQueue_OneShort(q, draws, oid) ==
    q \o [i \in 1..(IF Need(q) > 0 THEN Need(q) - 1 ELSE 0) |->
            [id |-> oid + i - 1, multiplier |-> draws[i]]]

\* fillQueue(): push {id: randomUUID(), multiplier: generateCrashPoint()} while
\* length < QUEUE_SIZE; draws are the generated values, oid the first fresh id
fillQueue(q, draws, oid) ==
    q \o [i \in 1..Need(q) |-> [id |-> oid + i - 1, multiplier |-> draws[i]]]

\* the draws one nextCrashPoint() makes: a fill of the empty queue, then the refill
DrawCount(q) == IF Len(q) = 0 THEN QUEUE_SIZE + 1 ELSE Need(Tail(q))

\* (variant of nextCrashPoint that takes the entry at the tail: pop for shift)
nextCrashPointQ_Pop(q, draws, oid) ==
    [value |-> q[Len(q)].multiplier,
     entry |-> q[Len(q)],
     queue |-> fillQueue(SubSeq(q, 1, Len(q) - 1), draws, oid)]

\* nextCrashPoint() of the queue variant:
\*   if (crashQueue.length === 0) fillQueue();
\*   const entry = crashQueue.shift(); fillQueue(); return entry.multiplier;
nextCrashPointQ(q, draws, oid) ==
    LET n0 == IF Len(q) = 0 THEN Need(q) ELSE 0
        q0 == IF Len(q) = 0 THEN fillQueue(q, draws, oid) ELSE q
        rest == SubSeq(draws, n0 + 1, Len(draws))
    IN  [value |-> Head(q0).multiplier,
         entry |-> Head(q0),
         queue |-> fillQueue(Tail(q0), rest, oid + n0)]

\* nextCrashPoint() of the pool variant:
\*   const cp = CRASH_POOL[queueIdx % CRASH_POOL.length]; queueIdx++;
\*   return parseFloat(cp.toFixed(2));
nextCrashPointP(pool, idx) ==
    [value |-> toFixed2(pool[(idx % Len(pool)) + 1]), idx |-> idx + 1]

\* crashQueue.slice(0, count) / Array.from({length: count}, ...)
Slice(q, count) == SubSeq(q, 1, IF Len(q) < count THEN Len(q) ELSE count)

\* peekQueue(count = 5): the multipliers of the entries it returns
peekQueueQ(q) == [i \in 1..Len(Slice(q, 5)) |-> q[i].multiplier]

peekQueueP(pool, idx) == [i \in 1..5 |-> pool[((idx + i - 1) % Len(pool)) + 1]]

\* the 50 preset multipliers of the pool variant
InitialPool ==
    <<2310, 1740, 4120, 23750, 2880, 19110, 1520, 25660, 3410,
      26700, 1980, 25050, 6770, 20910, 2140, 17400, 42930, 3650,
      24350, 1880, 18500, 5220, 31200, 2070, 27800, 1630, 22100,
      8140, 35600, 2550, 19900, 3900, 28300, 1770, 15800, 7300,
      44100, 2200, 21700, 4500, 17800, 1910, 33400, 3100, 26100,
      2440, 38900, 5800, 24800, 1550>>

-----------------------------------------------------------------------------
(* History ring *)

InitialHistoryQ ==
    <<47320, 123530, 34100, 29140, 526480, 28120, 29920,
      16800, 82200, 24600, 151900, 21220, 19460, 339220>>

InitialHistoryP ==
    <<47320, 23530, 34100, 29140, 26480, 28120, 29920,
      16800, 42200, 24600, 21900, 21220, 19460, 39220>>

\* .map(multiplier => ({id: randomUUID(), multiplier, ...})): ids unlike any round id
SeedHistory(ms) == [i \in 1..Len(ms) |-> [id |-> 0 - i, multiplier |-> ms[i]]]

\* (variant of doCrash that never evicts)
recordHistory_NoCap(h, roundId, finalMult) ==
    <<[id |-> roundId, multiplier |-> finalMult]>> \o h

\* (variant of doCrash that appends the entry at the tail: push for unshift)
recordHistory_Push(h, roundId, finalMult) ==
    LET h1 == h \o <<[id |-> roundId, multiplier |-> finalMult]>>
    IN  IF Len(h1) > HISTORY_CAP THEN SubSeq(h1, 1, Len(h1) - 1) ELSE h1

\* history.unshift({id: roundId, multiplier: finalMult, ...});
\* if (history.length > 20) history.pop();
recordHistory(h, roundId, finalMult) ==
    LET h1 == <<[id |-> roundId, multiplier |-> finalMult]>> \o h
    IN  IF Len(h1) > HISTORY_CAP THEN SubSeq(h1, 1, Len(h1) - 1) ELSE h1

-----------------------------------------------------------------------------
(* Events and observers *)

\* the handles of the connections a run may open
Obs == DOMAIN rcvd

\* One broadcast(event, data): the event name, the roundId and multiplier of
\* its data, the queue snapshot of a round_start; and, recorded with it, the
\* game.status at the time of the call, the function that made the call, the
\* observers whose res.write succeeded (to) and those whose res.write threw
\* (lost).
Ev(event, roundId, multiplier, queue, status, src) ==
    [event |-> event, roundId |-> roundId, multiplier |-> multiplier,
     queue |-> queue, status |-> status, src |-> src, to |-> {}, lost |-> {}]

Stamp(evs, to, lost) ==
    [i \in 1..Len(evs) |-> [evs[i] EXCEPT !.to = to, !.lost = lost]]

\* (variant of broadcast without the try/catch of sendSSE: a write that
\* throws ends the loop, nobody is written to)
Delivered_AbortOnFailure(cs, failed) == IF failed = {} THEN cs ELSE {}

\* the observers an event is written to when the writes to failed throw
Delivered(cs, failed) == cs \ failed

RoundEventNames == {"round_start", "fly", "tick", "crash"}

IsRoundEvent(e) == e.event \in RoundEventNames /\ e.src # "relay"

RoundEvents(evs) == SelectSeq(evs, IsRoundEvent)

NoEvent == [event |-> "none", roundId |-> 0, whole |-> FALSE]

\* what an observer holds after receiving evs: the last event of the
\* scheduler it saw, and whether it saw the round_start of that event's round
Receive(prev, evs) ==
    LET rs == RoundEvents(evs)
        last == rs[Len(rs)]
    IN  IF Len(rs) = 0 THEN prev
        ELSE [event |-> last.event, roundId |-> last.roundId,
              whole |-> \/ \E i \in 1..Len(rs) : /\ rs[i].event = "round_start"
                                                  /\ rs[i].roundId = last.roundId
                        \/ prev.whole /\ prev.roundId = last.roundId]

\* for (const c of clients) sendSSE(c, event, data), for each event of evs in
\* turn; failed are the observers whose res.write throws (on the first write):
\* sendSSE deletes them from clients.
Broadcast(evs, failed) ==
    /\ failed \subseteq clients
    /\ clients' = clients \ failed
    /\ out' = Stamp(evs, Delivered(clients, failed), failed)
    /\ rcvd' = [o \in Obs |-> IF o \in Delivered(clients, failed)
                              THEN Receive(rcvd[o], evs) ELSE NoEvent]

\* What the last handler answered: the handler, the HTTP status (0 for a timer
\* callback), the roundId a tick callback captured (0 otherwise), the body.at
\* of a force-crash and the body.pool of a crash-pool request, the server
\* that took a crash-pool request (via), the ?key= of a signal request, and of
\* its JSON answer crashedAt, queue, upcoming and the game state payload (a
\* sequence of none or one).
NoResp ==
    [req |-> "none", code |-> 0, timer |-> 0, at |-> Missing, pool |-> <<>>,
     via |-> "none", key |-> "none",
     crashedAt |-> 0, queue |-> <<>>, upcoming |-> <<>>, state |-> <<>>]

-----------------------------------------------------------------------------
(* Request bodies that are enumerated *)

\* body.at of POST /api/admin/force-crash
ForceInputs == {Num(2500), Num(0), Text, Missing}

\* a body.pool with more elements than the queue holds
LongPool == [i \in 1..(QUEUE_SIZE + 1) |-> Num(2000 + 10 * i)]

\* body.pool of POST /api/admin/crash-pool: two multipliers, a multiplier
\* below 1, a multiplier with three decimals, a non-numeric element, and the
\* long pool
Pools == {<<Num(2000), Num(3000)>>, <<Num(500)>>, <<Num(2503)>>, <<Text>>, LongPool}

InjectBodies ==
    {[isArray |-> TRUE, pool |-> p] : p \in Pools \cup {<<>>}}
        \cup {[isArray |-> FALSE, pool |-> <<>>]}

\* the http servers that hand a request to handleAPI: playerServer (the
\* public port) and adminServer
Servers == {"player", "admin"}

\* const SIGNAL_SECRET = crypto.randomBytes(16).toString('hex')
SIGNAL_SECRET == "secret"

\* url.searchParams.get('key') of GET /api/signal: the secret, another text,
\* or null
KeyInputs == {SIGNAL_SECRET, "wrong", "null"}

\* body of POST /api/broadcast: an event name, data (or none) and the
\* multiplier the data carries
RelayBodies ==
    {[event |-> "tick", hasData |-> TRUE, multiplier |-> 9990],
     [event |-> "notice", hasData |-> TRUE, multiplier |-> 0],
     [event |-> "tick", hasData |-> FALSE, multiplier |-> 0]}

-----------------------------------------------------------------------------
(* The state after the module is loaded: crashQueue filled (line 76), game
   built with a first nextCrashPoint() (line 131), startWaiting() run once
   (line 361).  No server listens yet, so no observer is connected. *)

\* game = {roundId: rid, status: 'waiting', multiplier: 1, startTime: null,
\*         crashPoint: cp, nextEventTime: Date.now() + WAIT_MS}
waitingGame(rid, cp) ==
    [roundId |-> rid, status |-> "waiting", multiplier |-> 1000,
     startTime |-> "null", crashPoint |-> cp, nextEventTime |-> "now+WAIT_MS"]

\* the events of startWaiting(): round_start, then heartbeat
waitingEvents(rid, cp, snapshot) ==
    <<Ev("round_start", rid, cp, snapshot, "waiting", "startWaiting"),
      Ev("heartbeat", rid, 1000, <<>>, "waiting", "startWaiting")>>

FirstRound(cp, snapshot) ==
    /\ game = waitingGame(1, cp)
    /\ out = waitingEvents(1, cp, snapshot)

InitQueue ==
    /\ variant = "queue"
    /\ \E d0 \in Draws(QUEUE_SIZE), d1 \in Draws(1), d2 \in Draws(1) :
         LET q0 == fillQueue(<<>>, d0, 1)
             r1 == nextCrashPointQ(q0, d1, QUEUE_SIZE + 1)
             r2 == nextCrashPointQ(r1.queue, d2, QUEUE_SIZE + 2)
         IN  /\ crashQueue = r2.queue
             /\ nextOid = QUEUE_SIZE + 3
             /\ FirstRound(r2.value, peekQueueQ(r2.queue))
    /\ CRASH_POOL = <<>>
    /\ queueIdx = 0
    /\ history = SeedHistory(InitialHistoryQ)

InitPool ==
    /\ variant = "pool"
    /\ LET r1 == nextCrashPointP(InitialPool, 0)
           r2 == nextCrashPointP(InitialPool, r1.idx)
       IN  /\ queueIdx = r2.idx
           /\ FirstRound(r2.value, peekQueueP(InitialPool, r2.idx))
    /\ CRASH_POOL = InitialPool
    /\ crashQueue = <<>>
    /\ nextOid = 1
    /\ history = SeedHistory(InitialHistoryP)

\* handles is the number of connections the run may open
InitWith(handles) ==
    /\ InitQueue \/ InitPool
    /\ clients = {}
    /\ nextObs = 1
    /\ rcvd = [o \in 1..handles |-> NoEvent]
    /\ flyTimers = 1
    /\ waitTimers = 0
    /\ tickTimers = {}
    /\ elapsed = 0
    /\ injects = 0
    /\ forces = 0
    /\ injected = <<>>
    /\ resp = NoResp
    /\ users = <<>>
    /\ dbUsers = <<>>
    /\ transactions = <<>>
    /\ pendingDeposits = <<>>
    /\ nextToken = 1
    /\ nextDeposit = 1

Init == InitWith(MaxClients)

-----------------------------------------------------------------------------
(* Game loop: startWaiting, startFlying and its tick callback, doCrash *)

\* game.status = 'flying'; game.startTime = startTime; game.multiplier = 1;
\* game.nextEventTime = null
flyingGame(g) ==
    [g EXCEPT !.status = "flying", !.startTime = "now", !.multiplier = 1000,
              !.nextEventTime = "null"]

\* (variant of doCrash that leaves game.nextEventTime as startFlying set it)
crashedGame_NoDeadline(g, finalMult) ==
    [g EXCEPT !.status = "crashed", !.multiplier = finalMult]

\* (variant of doCrash that also overwrites the target with the final value)
crashedGame_Retarget(g, finalMult) ==
    [g EXCEPT !.status = "crashed", !.multiplier = finalMult,
              !.crashPoint = finalMult, !.nextEventTime = "now+CRASH_PAUSE"]

\* game.status = 'crashed'; game.multiplier = finalMult;
\* game.nextEventTime = Date.now() + CRASH_PAUSE
crashedGame(g, finalMult) ==
    [g EXCEPT !.status = "crashed", !.multiplier = finalMult,
              !.nextEventTime = "now+CRASH_PAUSE"]

\* setTimeout(startWaiting, CRASH_PAUSE) fires: startWaiting(); rounds are
\* started up to round id lastRound
StartWaitingUntil(lastRound) ==
    /\ waitTimers > 0
    /\ game.roundId < lastRound
    /\ waitTimers' = waitTimers - 1
    /\ LET rid == game.roundId + 1 IN
       \/ /\ variant = "queue"
          /\ \E d1 \in Draws(DrawCount(crashQueue)) :
               LET r == nextCrashPointQ(crashQueue, d1, nextOid) IN
               \E d2 \in Draws(Need(r.queue)) :
                 LET q == fillQueue(r.queue, d2, nextOid + Len(d1)) IN
                 /\ crashQueue' = q
                 /\ nextOid' = nextOid + Len(d1) + Len(d2)
                 /\ game' = waitingGame(rid, r.value)
                 /\ \E failed \in SUBSET clients :
                      Broadcast(waitingEvents(rid, r.value, peekQueueQ(q)), failed)
          /\ UNCHANGED <<CRASH_POOL, queueIdx>>
       \/ /\ variant = "pool"
          /\ LET r == nextCrashPointP(CRASH_POOL, queueIdx) IN
               /\ queueIdx' = r.idx
               /\ game' = waitingGame(rid, r.value)
               /\ \E failed \in SUBSET clients :
                    Broadcast(waitingEvents(rid, r.value,
                                            peekQueueP(CRASH_POOL, r.idx)), failed)
          /\ UNCHANGED <<CRASH_POOL, crashQueue, nextOid>>
    /\ flyTimers' = flyTimers + 1
    /\ resp' = [NoResp EXCEPT !.req = "startWaiting"]
    /\ injected' = IF injected = <<>> THEN <<>> ELSE Tail(injected)
    /\ UNCHANGED <<wallet, variant, history, nextObs, tickTimers, elapsed, injects,
                   forces>>

StartWaiting == StartWaitingUntil(MaxRounds)

\* setTimeout(startFlying, WAIT_MS) fires: startFlying()
StartFlying ==
    /\ flyTimers > 0
    /\ flyTimers' = flyTimers - 1
    /\ game' = flyingGame(game)
    /\ \E failed \in SUBSET clients :
         Broadcast(<<Ev("fly", game.roundId, game.crashPoint, <<>>, "flying",
                        "startFlying")>>, failed)
    /\ tickTimers' = tickTimers \cup {game.roundId}
    /\ elapsed' = 0
    /\ resp' = [NoResp EXCEPT !.req = "startFlying"]
    /\ UNCHANGED <<wallet, variant, crashQueue, nextOid, CRASH_POOL, queueIdx, history,
                   nextObs, waitTimers, injects, forces, injected>>

\* (variant of the stale check that compares the status alone)
tickIsStale_StatusOnly(g, roundId) == g.status # "flying"

\* (variant of the tick callback without the stale check)
tickIsStale_Never(g, roundId) == FALSE

\* (variant of the stale check that compares the round id alone)
tickIsStale_IdOnly(g, roundId) == g.roundId # roundId

\* if (game.status !== 'flying' || game.roundId !== roundId) { clearInterval(timer); return; }
tickIsStale(g, roundId) == g.status # "flying" \/ g.roundId # roundId

\* if (mult >= crashPoint)
tickCrosses(mult, crashPoint) == Geq(mult, crashPoint)

\* (variant in which the replay-pool server alone crashes unclamped)
tickFinal_PoolUnclamped(mult, crashPoint) ==
    IF variant = "pool" THEN mult ELSE MathMin(mult, crashPoint)

\* (variant that crashes at the computed multiplier, unclamped)
tickFinal_Unclamped(mult, crashPoint) == mult

\* doCrash(roundId, Math.min(mult, crashPoint))
tickFinal(mult, crashPoint) == MathMin(mult, crashPoint)

\* the crash event of doCrash(roundId, finalMult)
crashEvent(roundId, finalMult) ==
    Ev("crash", roundId, finalMult, <<>>, "crashed", "doCrash")

\* const elapsed = (Date.now() - startTime) / 1000, a number of tick periods
\* after the firing before it; the clock stops at the end of the curve table
laterClock(clock, periods) ==
    IF clock + periods * TickSeconds > Horizon THEN Horizon
    ELSE clock + periods * TickSeconds

\* One firing of the setInterval callback that startFlying registered for
\* round roundId.
Tick(roundId) ==
    /\ roundId \in tickTimers
    /\ resp' = [NoResp EXCEPT !.req = "tick", !.timer = roundId]
    /\ IF tickIsStale(game, roundId)
       THEN /\ tickTimers' = tickTimers \ {roundId}
            /\ out' = <<>>
            /\ UNCHANGED <<game, history, waitTimers, clients, rcvd, elapsed>>
       ELSE \E periods \in 1..MaxSkip :
            LET now == laterClock(elapsed, periods)
                mult == getMultiplierAtTime(now)
                crashPoint == game.crashPoint
                tickEv == Ev("tick", roundId, mult, <<>>, "flying", "tick")
            IN  IF tickCrosses(mult, crashPoint)
                THEN /\ tickTimers' = tickTimers \ {roundId}
                     /\ elapsed' = 0
                     /\ game' = crashedGame(game, tickFinal(mult, crashPoint))
                     /\ history' = recordHistory(history, roundId,
                                                 tickFinal(mult, crashPoint))
                     /\ waitTimers' = waitTimers + 1
                     /\ \E failed \in SUBSET clients :
                          Broadcast(<<tickEv,
                                      crashEvent(roundId,
                                                 tickFinal(mult, crashPoint))>>,
                                    failed)
                ELSE /\ elapsed' = now
                     /\ game' = [game EXCEPT !.multiplier = mult]
                     /\ \E failed \in SUBSET clients : Broadcast(<<tickEv>>, failed)
                     /\ UNCHANGED <<history, waitTimers, tickTimers>>
    /\ UNCHANGED <<wallet, variant, crashQueue, nextOid, CRASH_POOL, queueIdx, nextObs,
                   flyTimers, injects, forces, injected>>

TickTimer == \E roundId \in tickTimers : Tick(roundId)

\* setInterval(() => broadcast('heartbeat', ...), 10000)
Heartbeat ==
    /\ \E failed \in SUBSET clients :
         Broadcast(<<Ev("heartbeat", game.roundId, game.multiplier, <<>>,
                        game.status, "heartbeat")>>, failed)
    /\ resp' = [NoResp EXCEPT !.req = "heartbeat"]
    /\ UNCHANGED <<wallet, variant, game, crashQueue, nextOid, CRASH_POOL, queueIdx,
                   history, nextObs, flyTimers, waitTimers, tickTimers, elapsed,
                   injects, forces, injected>>

-----------------------------------------------------------------------------
(* HTTP handlers (handleAPI) *)

Resp(req, code) == [NoResp EXCEPT !.req = req, !.code = code]

\* const at = parseFloat(body.at) || 1.5
forceValue(at) == OrDefault(parseFloat(at), 1500)

\* (variant of the phase check that lets every request through)
forceAllowed_Always(g) == TRUE

\* if (game.status === 'flying')
forceAllowed(g) == g.status = "flying"

\* POST /api/admin/force-crash {at}
ForceCrash(at) ==
    /\ IF forceAllowed(game)
       THEN /\ forces < MaxForces
            /\ forces' = forces + 1
            /\ game' = crashedGame(game, forceValue(at))
            /\ history' = recordHistory(history, game.roundId, forceValue(at))
            /\ waitTimers' = waitTimers + 1
            /\ elapsed' = 0
            /\ \E failed \in SUBSET clients :
                 Broadcast(<<crashEvent(game.roundId, forceValue(at))>>, failed)
            /\ resp' = [Resp("force-crash", 200) EXCEPT !.at = at,
                                                          !.crashedAt = forceValue(at)]
       ELSE /\ resp' = [Resp("force-crash", 400) EXCEPT !.at = at]
            /\ out' = <<>>
            /\ UNCHANGED <<game, history, waitTimers, clients, rcvd, elapsed, forces>>
    /\ UNCHANGED <<wallet, variant, crashQueue, nextOid, CRASH_POOL, queueIdx, nextObs,
                   flyTimers, tickTimers, injects, injected>>

\* if (Array.isArray(body.pool) && body.pool.length > 0)
poolAccepted(body) == body.isArray /\ Len(body.pool) > 0

\* body.pool.forEach(x => crashQueue.push({id: randomUUID(), multiplier: parseFloat(x)}))
injectedQueue(pool, oid) ==
    [i \in 1..Len(pool) |-> [id |-> oid + i - 1, multiplier |-> parseFloat(pool[i])]]

\* body.pool.forEach(x => CRASH_POOL.push(parseFloat(x)))
injectedPool(pool) == [i \in 1..Len(pool) |-> parseFloat(pool[i])]

\* POST /api/admin/crash-pool {pool}, received by server via
Inject(via, body) ==
    /\ via \in Servers
    /\ IF poolAccepted(body)
       THEN /\ injects < MaxInjects
            /\ injects' = injects + 1
            /\ injected' = body.pool
            /\ \/ /\ variant = "queue"
                  /\ LET q0 == injectedQueue(body.pool, nextOid) IN
                     \E d \in Draws(Need(q0)) :
                       LET q == fillQueue(q0, d, nextOid + Len(q0)) IN
                       /\ crashQueue' = q
                       /\ nextOid' = nextOid + Len(q0) + Len(d)
                       /\ resp' = [Resp("crash-pool", 200) EXCEPT
                                     !.pool = body.pool, !.via = via,
                                     !.queue = [i \in 1..Len(q) |-> q[i].multiplier]]
                  /\ UNCHANGED <<CRASH_POOL, queueIdx>>
               \/ /\ variant = "pool"
                  /\ CRASH_POOL' = injectedPool(body.pool)
                  /\ queueIdx' = 0
                  /\ resp' = [Resp("crash-pool", 200) EXCEPT
                                !.pool = body.pool, !.via = via,
                                !.queue = injectedPool(body.pool)]
                  /\ UNCHANGED <<crashQueue, nextOid>>
       ELSE /\ resp' = [Resp("crash-pool", 400) EXCEPT !.pool = body.pool,
                                                        !.via = via]
            /\ UNCHANGED <<crashQueue, nextOid, CRASH_POOL, queueIdx, injects,
                           injected>>
    /\ out' = <<>>
    /\ UNCHANGED <<wallet, variant, game, history, clients, nextObs, rcvd, flyTimers,
                   waitTimers, tickTimers, elapsed, forces>>

\* POST /api/broadcast {event, data}: if (body.event && body.data) broadcast(...)
Relay(body) ==
    /\ IF body.event # "" /\ body.hasData
       THEN \E failed \in SUBSET clients :
              Broadcast(<<Ev(body.event, game.roundId, body.multiplier, <<>>,
                             game.status, "relay")>>, failed)
       ELSE /\ out' = <<>>
            /\ UNCHANGED <<clients, rcvd>>
    /\ resp' = Resp("broadcast", 200)
    /\ UNCHANGED <<wallet, variant, game, crashQueue, nextOid, CRASH_POOL, queueIdx,
                   history, nextObs, flyTimers, waitTimers, tickTimers, elapsed,
                   injects, forces, injected>>

\* (variant of /api/stream that replays the round's fly event to the new
\* observer before the heartbeat)
subscribeEvents_Replay(g) ==
    <<Ev("fly", g.roundId, g.crashPoint, <<>>, g.status, "stream"),
      Ev("heartbeat", g.roundId, g.multiplier, <<>>, g.status, "stream")>>

\* sendSSE(res, 'heartbeat', {status, nextEventTime}): all that a new
\* connection is sent
subscribeEvents(g) ==
    <<Ev("heartbeat", g.roundId, g.multiplier, <<>>, g.status, "stream")>>

\* GET /api/stream: clients.add(res); sendSSE(res, 'heartbeat', ...)
Subscribe ==
    /\ nextObs \in Obs
    /\ nextObs' = nextObs + 1
    /\ \E ok \in BOOLEAN :
         /\ clients' = IF ok THEN clients \cup {nextObs} ELSE clients
         /\ out' = Stamp(subscribeEvents(game),
                         IF ok THEN {nextObs} ELSE {},
                         IF ok THEN {} ELSE {nextObs})
    /\ rcvd' = [rcvd EXCEPT ![nextObs] = NoEvent]
    /\ resp' = Resp("stream", 200)
    /\ UNCHANGED <<wallet, variant, game, crashQueue, nextOid, CRASH_POOL, queueIdx,
                   history, flyTimers, waitTimers, tickTimers, elapsed,
                   injects, forces, injected>>

\* req.on('close' | 'error', () => clients.delete(res))
Unsubscribe(o) ==
    /\ o \in clients
    /\ clients' = clients \ {o}
    /\ rcvd' = [rcvd EXCEPT ![o] = NoEvent]
    /\ out' = <<>>
    /\ resp' = [NoResp EXCEPT !.req = "close"]
    /\ UNCHANGED <<wallet, variant, game, crashQueue, nextOid, CRASH_POOL, queueIdx,
                   history, nextObs, flyTimers, waitTimers, tickTimers, elapsed,
                   injects, forces, injected>>

\* Math.max(a, b)
MathMax(a, b) == IF a = NaN \/ b = NaN THEN NaN ELSE IF a > b THEN a ELSE b

\* Amounts of money are JavaScript numbers too, kept in thousandths of a
\* shilling (KES 10 is 10000).
\* Math.max(10, parseFloat(body.amount) || 10)
MIN_BET == 10000
\* parseFloat(body.amount) || 10 and parseFloat(body.multiplier) || 1
CASHOUT_AMOUNT == 10000
CASHOUT_MULT == 1000

\* getUser(req): users.get(token) || null, the token taken from the
\* Authorization header; 0 stands for no header and for null
getUser(token) == IF token \in DOMAIN users THEN users[token] ELSE 0

\* the Authorization headers followed: none, or any token issued so far
Presented == 0..(nextToken - 1)

\* addTransaction(userId, type, amount, details): db.transactions.push(tx);
\* of details the multiplier of a cashout and the pendingDeposits key of a
\* deposit are kept (0 otherwise); userId 0 is 'system'
addTransaction(txs, userId, type, amount, mult, ref) ==
    Append(txs, [userId |-> userId, type |-> type, amount |-> amount,
                 mult |-> mult, ref |-> ref])

\* body.amount of POST /api/game/bet
BetAmounts == {Num(100000), Missing}

\* const amount = Math.max(10, parseFloat(body.amount) || 10)
betAmount(amount) == MathMax(MIN_BET, OrDefault(parseFloat(amount), MIN_BET))

\* POST /api/game/bet.  Queue variant: with a user, 400 when the balance is
\* below the amount, else the balance is debited and the bet recorded
\* (687-700).  Pool variant: with a user the balance is debited down to 0,
\* nothing is recorded and nothing rejected (1690-1698).  Then 200 and
\* bet_placed is broadcast.
Bet(token, amount) ==
    LET user == getUser(token)
        amt == betAmount(amount)
    IN
    /\ IF user # 0 /\ variant = "queue" /\ dbUsers[user].balance < amt
       THEN /\ out' = <<>>
            /\ resp' = Resp("bet", 400)
            /\ UNCHANGED <<clients, rcvd, dbUsers, transactions>>
       ELSE /\ IF user # 0
               THEN /\ dbUsers' = [dbUsers EXCEPT
                                     ![user].balance = MathMax(0, @ - amt)]
                    /\ IF variant = "queue"
                       THEN /\ Len(transactions) < MaxTx
                            /\ transactions' = addTransaction(transactions, user,
                                                              "bet", 0 - amt, 0, 0)
                       ELSE UNCHANGED transactions
               ELSE UNCHANGED <<dbUsers, transactions>>
            /\ \E failed \in SUBSET clients :
                 Broadcast(<<Ev("bet_placed", game.roundId, 0, <<>>,
                                game.status, "bet")>>, failed)
            /\ resp' = Resp("bet", 200)
    /\ UNCHANGED <<users, pendingDeposits, nextToken, nextDeposit>>
    /\ UNCHANGED <<variant, game, crashQueue, nextOid, CRASH_POOL, queueIdx,
                   history, nextObs, flyTimers, waitTimers, tickTimers, elapsed,
                   injects, forces, injected>>

\* body of POST /api/game/cashout
CashoutBodies ==
    {[multiplier |-> Num(2000), amount |-> Num(100000)],
     [multiplier |-> Missing, amount |-> Num(0 - 50000)],
     [multiplier |-> Text, amount |-> Text]}

\* const mult = parseFloat(body.multiplier) || 1
cashoutMult(mult) == OrDefault(parseFloat(mult), CASHOUT_MULT)

\* const amount = parseFloat(body.amount) || 10;
\* const payout = parseFloat((amount * mult).toFixed(2))
cashoutPayout(mult, amount) ==
    toFixed2((OrDefault(parseFloat(amount), CASHOUT_AMOUNT) * cashoutMult(mult))
             \div 1000)

\* (variant of /api/game/cashout that stores the multiplier it applied in
\* game.multiplier)
Cashout_WritesMultiplier(token, mult, amount) ==
    /\ out' = <<>>
    /\ resp' = Resp("cashout", 200)
    /\ game' = [game EXCEPT !.multiplier = cashoutMult(mult)]
    /\ UNCHANGED <<wallet, variant, crashQueue, nextOid, CRASH_POOL, queueIdx,
                   history, clients, nextObs, rcvd, flyTimers, waitTimers,
                   tickTimers, elapsed, injects, forces, injected>>

\* POST /api/game/cashout: with a user the payout is added to the balance
\* and, in the queue variant, recorded (702-715, 1700-1709); answers 200
Cashout(token, mult, amount) ==
    LET user == getUser(token)
        payout == cashoutPayout(mult, amount)
    IN
    /\ IF user # 0
       THEN /\ dbUsers' = [dbUsers EXCEPT ![user].balance = @ + payout]
            /\ IF variant = "queue"
               THEN /\ Len(transactions) < MaxTx
                    /\ transactions' = addTransaction(transactions, user, "cashout",
                                                      payout, cashoutMult(mult), 0)
               ELSE UNCHANGED transactions
       ELSE UNCHANGED <<dbUsers, transactions>>
    /\ out' = <<>>
    /\ resp' = Resp("cashout", 200)
    /\ UNCHANGED <<users, pendingDeposits, nextToken, nextDeposit>>
    /\ UNCHANGED <<variant, game, crashQueue, nextOid, CRASH_POOL, queueIdx,
                   history, clients, nextObs, rcvd, flyTimers, waitTimers,
                   tickTimers, elapsed, injects, forces, injected>>

\* (variant of gameStatePayload that reports the front of the queue as the
\* round's target)
gameStatePayload_NextTarget(g, h, snapshot) ==
    [roundId |-> g.roundId, status |-> g.status,
     currentMultiplier |-> g.multiplier, startTime |-> g.startTime,
     nextEventTime |-> g.nextEventTime, target |-> snapshot[1],
     history |-> h, queue |-> snapshot]

\* gameStatePayload(): the fields of game it copies, history and peekQueue()
gameStatePayload(g, h, snapshot) ==
    [roundId |-> g.roundId, status |-> g.status,
     currentMultiplier |-> g.multiplier, startTime |-> g.startTime,
     nextEventTime |-> g.nextEventTime, target |-> g.crashPoint,
     history |-> h, queue |-> snapshot]

\* (variant of /api/game/state whose peek takes the front entry off the queue)
GetState_Consumes ==
    /\ \/ /\ variant = "queue"
          /\ \E d \in Draws(Need(crashQueue)) :
               LET q == fillQueue(crashQueue, d, nextOid) IN
               /\ crashQueue' = Tail(q)
               /\ nextOid' = nextOid + Len(d)
               /\ resp' = [Resp("state", 200) EXCEPT !.state =
                             <<gameStatePayload(game, history, peekQueueQ(q))>>]
       \/ /\ variant = "pool"
          /\ resp' = [Resp("state", 200) EXCEPT !.state =
                        <<gameStatePayload(game, history,
                                           peekQueueP(CRASH_POOL, queueIdx))>>]
          /\ UNCHANGED <<crashQueue, nextOid>>
    /\ out' = <<>>
    /\ UNCHANGED <<wallet, variant, game, CRASH_POOL, queueIdx, history, clients,
                   nextObs, rcvd, flyTimers, waitTimers, tickTimers, elapsed,
                   injects, forces, injected>>

\* GET /api/game/state
GetState ==
    /\ \/ /\ variant = "queue"
          /\ \E d \in Draws(Need(crashQueue)) :
               LET q == fillQueue(crashQueue, d, nextOid) IN
               /\ crashQueue' = q
               /\ nextOid' = nextOid + Len(d)
               /\ resp' = [Resp("state", 200) EXCEPT !.state =
                             <<gameStatePayload(game, history, peekQueueQ(q))>>]
       \/ /\ variant = "pool"
          /\ resp' = [Resp("state", 200) EXCEPT !.state =
                        <<gameStatePayload(game, history,
                                           peekQueueP(CRASH_POOL, queueIdx))>>]
          /\ UNCHANGED <<crashQueue, nextOid>>
    /\ out' = <<>>
    /\ UNCHANGED <<wallet, variant, game, CRASH_POOL, queueIdx, history, clients,
                   nextObs, rcvd, flyTimers, waitTimers, tickTimers, elapsed,
                   injects, forces, injected>>

\* crashQueue.map((e, i) => ({position: i + 1, id: e.id, multiplier: e.multiplier}))
upcomingOf(q) ==
    [i \in 1..Len(q) |-> [position |-> i, id |-> q[i].id,
                          multiplier |-> q[i].multiplier]]

\* crashQueue.map((e, i) => ({position: i + 1, multiplier: e.multiplier})):
\* the entries carry no id (0 here)
upcomingPlain(q) ==
    [i \in 1..Len(q) |-> [position |-> i, id |-> 0,
                          multiplier |-> q[i].multiplier]]

\* if (key !== SIGNAL_SECRET)
keyRejected(key) == key # SIGNAL_SECRET

\* GET /api/signal?key=... (queue variant; the pool variant has no such route)
Signal(key) ==
    /\ variant = "queue"
    /\ IF keyRejected(key)
       THEN /\ resp' = [Resp("signal", 403) EXCEPT !.key = key]
            /\ UNCHANGED <<crashQueue, nextOid>>
       ELSE \E d \in Draws(Need(crashQueue)) :
              LET q == fillQueue(crashQueue, d, nextOid) IN
              /\ crashQueue' = q
              /\ nextOid' = nextOid + Len(d)
              /\ resp' = [Resp("signal", 200) EXCEPT !.key = key,
                                                     !.upcoming = upcomingOf(q)]
    /\ out' = <<>>
    /\ UNCHANGED <<wallet, variant, game, CRASH_POOL, queueIdx, history, clients,
                   nextObs, rcvd, flyTimers, waitTimers, tickTimers, elapsed,
                   injects, forces, injected>>

\* GET /signal/data on either server, and GET /api/data on the signal server
\* (queue variant)
SignalData ==
    /\ variant = "queue"
    /\ \E d \in Draws(Need(crashQueue)) :
         LET q == fillQueue(crashQueue, d, nextOid) IN
         /\ crashQueue' = q
         /\ nextOid' = nextOid + Len(d)
         /\ resp' = [Resp("signal-data", 200) EXCEPT !.upcoming = upcomingPlain(q)]
    /\ out' = <<>>
    /\ UNCHANGED <<wallet, variant, game, CRASH_POOL, queueIdx, history, clients,
                   nextObs, rcvd, flyTimers, waitTimers, tickTimers, elapsed,
                   injects, forces, injected>>

-----------------------------------------------------------------------------
(* Accounts, deposits and withdrawals of the queue variant *)

\* body.phone as the client wrote it: 07xx..., +2547xx..., 2547xx..., or
\* absent; sub tells the subscribers apart
NoPhone == [form |-> "none", sub |-> 0]
RawPhones ==
    {[form |-> "07", sub |-> 1], [form |-> "+254", sub |-> 1],
     [form |-> "254", sub |-> 2], NoPhone}

\* normalizePhone(raw): spaces and a leading + removed, a leading 0 replaced
\* by 254
normalizePhone(raw) ==
    IF raw.form \in {"07", "+254"} THEN [form |-> "254", sub |-> raw.sub] ELSE raw

\* Object.values(db.users).find(u => u.phone === phone): the user's id, 0 if
\* there is none
findByPhone(phone) ==
    IF \E i \in 1..Len(dbUsers) : dbUsers[i].phone = phone
    THEN CHOOSE i \in 1..Len(dbUsers) : dbUsers[i].phone = phone
    ELSE 0

\* POST /api/auth/signup: 400 without a phone; createUser(phone): 409 when
\* the phone is registered, else a new user with balance 0 and a fresh token,
\* db.users[id] = user; users.set(token, user)
Signup(raw) ==
    /\ IF raw = NoPhone
       THEN /\ resp' = Resp("signup", 400)
            /\ UNCHANGED <<users, dbUsers, nextToken>>
       ELSE IF findByPhone(normalizePhone(raw)) # 0
       THEN /\ resp' = Resp("signup", 409)
            /\ UNCHANGED <<users, dbUsers, nextToken>>
       ELSE /\ nextToken <= MaxTokens
            /\ dbUsers' = Append(dbUsers, [phone |-> normalizePhone(raw),
                                           balance |-> 0,
                                           accessToken |-> nextToken])
            /\ users' = [t \in DOMAIN users \cup {nextToken} |->
                           IF t = nextToken THEN Len(dbUsers) + 1 ELSE users[t]]
            /\ nextToken' = nextToken + 1
            /\ resp' = Resp("signup", 200)
    /\ out' = <<>>
    /\ UNCHANGED <<transactions, pendingDeposits, nextDeposit>>
    /\ UNCHANGED <<variant, game, crashQueue, nextOid, CRASH_POOL, queueIdx,
                   history, clients, nextObs, rcvd, flyTimers, waitTimers,
                   tickTimers, elapsed, injects, forces, injected>>

\* (variant of loginUser that leaves the old token in the users map)
rotateToken_KeepOld(map, oldToken, newToken, user) ==
    [t \in DOMAIN map \cup {newToken} |-> IF t = newToken THEN user ELSE map[t]]

\* users.delete(oldToken); users.set(newToken, user)
rotateToken(map, oldToken, newToken, user) ==
    [t \in (DOMAIN map \ {oldToken}) \cup {newToken} |->
       IF t = newToken THEN user ELSE map[t]]

\* POST /api/auth/login: 400 without a phone; loginUser(phone): 401 when no
\* user has the phone, else the user's token is rotated
Login(raw) ==
    LET user == findByPhone(normalizePhone(raw)) IN
    /\ IF raw = NoPhone
       THEN /\ resp' = Resp("login", 400)
            /\ UNCHANGED <<users, dbUsers, nextToken>>
       ELSE IF user = 0
       THEN /\ resp' = Resp("login", 401)
            /\ UNCHANGED <<users, dbUsers, nextToken>>
       ELSE /\ nextToken <= MaxTokens
            /\ users' = rotateToken(users, dbUsers[user].accessToken, nextToken, user)
            /\ dbUsers' = [dbUsers EXCEPT ![user].accessToken = nextToken]
            /\ nextToken' = nextToken + 1
            /\ resp' = Resp("login", 200)
    /\ out' = <<>>
    /\ UNCHANGED <<transactions, pendingDeposits, nextDeposit>>
    /\ UNCHANGED <<variant, game, crashQueue, nextOid, CRASH_POOL, queueIdx,
                   history, clients, nextObs, rcvd, flyTimers, waitTimers,
                   tickTimers, elapsed, injects, forces, injected>>

\* if (amount < 100): the minimum deposit
MIN_DEPOSIT == 100000

\* body.amount of POST /api/mpesa/stkpush
DepositAmounts == {Num(100000), Num(50000)}

\* what the payment provider answers to the STK push request: success '200',
\* or anything else (a refusal, or no answer at all)
ProviderAnswers == {"200", "failed"}

\* POST /api/mpesa/stkpush: 400 below the minimum, 400 without a phone in the
\* body or on the user; on the provider's success the pending deposit is
\* stored under the provider's transaction_request_id if there is a user,
\* and the answer is 200; else 502.  The user is looked up when the request
\* arrives and user.accessToken is read when the provider answers; the
\* request is taken at that moment.
StkPush(token, amount, raw, answer) ==
    LET user == getUser(token)
        amt == OrDefault(parseFloat(amount), 0)
    IN
    /\ IF amt < MIN_DEPOSIT
       THEN /\ resp' = Resp("stkpush", 400)
            /\ UNCHANGED <<pendingDeposits, nextDeposit>>
       ELSE IF raw = NoPhone /\ user = 0
       THEN /\ resp' = Resp("stkpush", 400)
            /\ UNCHANGED <<pendingDeposits, nextDeposit>>
       ELSE IF answer = "200"
       THEN /\ nextDeposit <= MaxDeposits
            /\ pendingDeposits' =
                 IF user # 0
                 THEN [k \in DOMAIN pendingDeposits \cup {nextDeposit} |->
                         IF k = nextDeposit
                         THEN [userId |-> user,
                               token |-> dbUsers[user].accessToken,
                               amount |-> amt]
                         ELSE pendingDeposits[k]]
                 ELSE pendingDeposits
            /\ nextDeposit' = nextDeposit + 1
            /\ resp' = Resp("stkpush", 200)
       ELSE /\ resp' = Resp("stkpush", 502)
            /\ UNCHANGED <<pendingDeposits, nextDeposit>>
    /\ out' = <<>>
    /\ UNCHANGED <<users, dbUsers, transactions, nextToken>>
    /\ UNCHANGED <<variant, game, crashQueue, nextOid, CRASH_POOL, queueIdx,
                   history, clients, nextObs, rcvd, flyTimers, waitTimers,
                   tickTimers, elapsed, injects, forces, injected>>

\* pendingDeposits.delete(key) for each key of keys
deleteKeys(pending, keys) == [k \in DOMAIN pending \ keys |-> pending[k]]

\* The bodies of POST /api/mpesa/webhook followed: for each key a success
\* that names it as TransactionID, as CheckoutRequestID, or as
\* MerchantRequestID only, and a failure; an id of 0 is one that is no key.
WebhookBodies ==
    UNION {{[ResponseCode |-> 0, TransactionID |-> k, CheckoutRequestID |-> 0,
             MerchantRequestID |-> 0],
            [ResponseCode |-> 0, TransactionID |-> 0, CheckoutRequestID |-> k,
             MerchantRequestID |-> 0],
            [ResponseCode |-> 0, TransactionID |-> 0, CheckoutRequestID |-> 0,
             MerchantRequestID |-> k],
            [ResponseCode |-> 1, TransactionID |-> k, CheckoutRequestID |-> 0,
             MerchantRequestID |-> 0]} : k \in 1..MaxDeposits}

\* pendingDeposits.get(body.TransactionID) ||
\* pendingDeposits.get(body.CheckoutRequestID) ||
\* pendingDeposits.get(body.MerchantRequestID): the key found, 0 if none (the
\* loop over the entries that follows finds no key these lookups missed)
matchedKey(pending, body) ==
    IF body.TransactionID \in DOMAIN pending THEN body.TransactionID
    ELSE IF body.CheckoutRequestID \in DOMAIN pending THEN body.CheckoutRequestID
    ELSE IF body.MerchantRequestID \in DOMAIN pending THEN body.MerchantRequestID
    ELSE 0

\* user.balance += amount; persistUser(user); addTransaction(user.id,
\* 'deposit', amount, ...) for the user users.get(token), if there is one
creditDeposit(key, entry) ==
    LET user == getUser(entry.token) IN
    IF user # 0
    THEN /\ Len(transactions) < MaxTx
         /\ dbUsers' = [dbUsers EXCEPT ![user].balance = @ + entry.amount]
         /\ transactions' = addTransaction(transactions, user, "deposit",
                                           entry.amount, 0, key)
    ELSE UNCHANGED <<dbUsers, transactions>>

\* POST /api/mpesa/webhook: on ResponseCode 0 the matched pending deposit is
\* credited and the keys body.TransactionID and body.CheckoutRequestID are
\* deleted; on any other code a deposit_failed entry is recorded for
\* 'system' and the same two keys are deleted; always answers 200
Webhook(body) ==
    LET key == matchedKey(pendingDeposits, body)
        named == {body.TransactionID, body.CheckoutRequestID}
    IN
    /\ IF body.ResponseCode = 0
       THEN IF key # 0
            THEN /\ creditDeposit(key, pendingDeposits[key])
                 /\ pendingDeposits' = deleteKeys(pendingDeposits, named)
            ELSE UNCHANGED <<dbUsers, transactions, pendingDeposits>>
       ELSE /\ Len(transactions) < MaxTx
            /\ transactions' = addTransaction(transactions, 0, "deposit_failed",
                                              0, 0, 0)
            /\ pendingDeposits' = deleteKeys(pendingDeposits, named)
            /\ UNCHANGED dbUsers
    /\ out' = <<>>
    /\ resp' = Resp("webhook", 200)
    /\ UNCHANGED <<users, nextToken, nextDeposit>>
    /\ UNCHANGED <<variant, game, crashQueue, nextOid, CRASH_POOL, queueIdx,
                   history, clients, nextObs, rcvd, flyTimers, waitTimers,
                   tickTimers, elapsed, injects, forces, injected>>

\* what the payment provider answers to a status request: TransactionStatus
\* 'Completed' with TransactionCode '0', another status, or no answer
StatusAnswers == {"Completed", "Pending", "unreachable"}

\* POST /api/mpesa/status: 400 without body.transaction_request_id (0); 502
\* when the provider is unreachable; when it reports the transaction
\* completed and the deposit is pending, the deposit is credited and its key
\* deleted; the provider's answer is relayed with 200
StatusPoll(id, answer) ==
    /\ IF id = 0
       THEN /\ resp' = Resp("status", 400)
            /\ UNCHANGED <<dbUsers, transactions, pendingDeposits>>
       ELSE IF answer = "unreachable"
       THEN /\ resp' = Resp("status", 502)
            /\ UNCHANGED <<dbUsers, transactions, pendingDeposits>>
       ELSE /\ IF answer = "Completed" /\ id \in DOMAIN pendingDeposits
               THEN /\ creditDeposit(id, pendingDeposits[id])
                    /\ pendingDeposits' = deleteKeys(pendingDeposits, {id})
               ELSE UNCHANGED <<dbUsers, transactions, pendingDeposits>>
            /\ resp' = Resp("status", 200)
    /\ out' = <<>>
    /\ UNCHANGED <<users, nextToken, nextDeposit>>
    /\ UNCHANGED <<variant, game, crashQueue, nextOid, CRASH_POOL, queueIdx,
                   history, clients, nextObs, rcvd, flyTimers, waitTimers,
                   tickTimers, elapsed, injects, forces, injected>>

\* parseFloat(body.amount) || 100
WITHDRAW_AMOUNT == 100000

\* body.amount of POST /api/wallet/withdraw
WithdrawAmounts == {Num(50000), Num(0 - 100000), Missing}

\* (variant of the withdrawal that records the amount with a positive sign)
withdrawEntry_Positive(amount) == amount

\* addTransaction(user.id, 'withdrawal', -amount, ...): the amount recorded
withdrawEntry(amount) == 0 - amount

\* POST /api/wallet/withdraw: 401 without a user, 400 when the balance is
\* below the amount, else the balance is debited and the withdrawal recorded
Withdraw(token, amount) ==
    LET user == getUser(token)
        amt == OrDefault(parseFloat(amount), WITHDRAW_AMOUNT)
    IN
    /\ IF user = 0
       THEN /\ resp' = Resp("withdraw", 401)
            /\ UNCHANGED <<dbUsers, transactions>>
       ELSE IF dbUsers[user].balance < amt
       THEN /\ resp' = Resp("withdraw", 400)
            /\ UNCHANGED <<dbUsers, transactions>>
       ELSE /\ Len(transactions) < MaxTx
            /\ dbUsers' = [dbUsers EXCEPT ![user].balance = MathMax(0, @ - amt)]
            /\ transactions' = addTransaction(transactions, user, "withdrawal",
                                              withdrawEntry(amt), 0, 0)
            /\ resp' = Resp("withdraw", 200)
    /\ out' = <<>>
    /\ UNCHANGED <<users, pendingDeposits, nextToken, nextDeposit>>
    /\ UNCHANGED <<variant, game, crashQueue, nextOid, CRASH_POOL, queueIdx,
                   history, clients, nextObs, rcvd, flyTimers, waitTimers,
                   tickTimers, elapsed, injects, forces, injected>>

-----------------------------------------------------------------------------

Next ==
    \/ StartWaiting
    \/ StartFlying
    \/ TickTimer
    \/ Heartbeat
    \/ \E at \in ForceInputs : ForceCrash(at)
    \/ \E via \in Servers, body \in InjectBodies : Inject(via, body)
    \/ \E body \in RelayBodies : Relay(body)
    \/ Subscribe
    \/ \E o \in Obs : Unsubscribe(o)
    \/ GetState
    \/ \E key \in KeyInputs : Signal(key)
    \/ SignalData
    \/ \E token \in Presented, amount \in BetAmounts : Bet(token, amount)
    \/ \E token \in Presented, body \in CashoutBodies :
         Cashout(token, body.multiplier, body.amount)

Spec == Init /\ [][Next]_vars

\* Runs long enough to fill the history ring: the game loop with forced
\* crashes, injections and state reads (the handlers that reach doCrash or
\* read history), without observers.
HistoryNext ==
    \/ StartWaitingUntil(HistoryRounds)
    \/ StartFlying
    \/ TickTimer
    \/ \E at \in ForceInputs : ForceCrash(at)
    \/ \E body \in InjectBodies : Inject("admin", body)
    \/ GetState

HistorySpec == Init /\ [][HistoryNext]_vars

\* Runs with two observers: the game loop and every handler that broadcasts
\* or changes the observer set.
HubNext ==
    \/ StartWaiting
    \/ StartFlying
    \/ TickTimer
    \/ Heartbeat
    \/ \E at \in ForceInputs : ForceCrash(at)
    \/ \E body \in RelayBodies : Relay(body)
    \/ \E token \in Presented, amount \in BetAmounts : Bet(token, amount)
    \/ Subscribe
    \/ \E o \in Obs : Unsubscribe(o)

HubSpec == InitWith(HubClients) /\ [][HubNext]_vars

\* The timers of the event loop fire: a pending timeout runs when it is due,
\* and a live interval keeps firing.  The requests followed are those that
\* act on the round or on its targets.
FairNext ==
    \/ StartWaiting
    \/ StartFlying
    \/ TickTimer
    \/ \E at \in ForceInputs : ForceCrash(at)
    \/ \E body \in InjectBodies : Inject("player", body)
    \/ GetState
    \/ \E token \in Presented, body \in CashoutBodies :
         Cashout(token, body.multiplier, body.amount)

FairSpec ==
    /\ Init
    /\ [][FairNext]_vars
    /\ WF_vars(StartWaiting)
    /\ WF_vars(StartFlying)
    /\ WF_vars(TickTimer)

\* the queue variant after module load
InitQueueVariant == Init /\ variant = "queue"

\* The persistent wallet: the queue variant with its accounts, deposits,
\* bets, cashouts and withdrawals; the round stays as it started.
WalletNext ==
    \/ \E raw \in RawPhones : Signup(raw)
    \/ \E raw \in RawPhones : Login(raw)
    \/ \E token \in Presented, amount \in BetAmounts : Bet(token, amount)
    \/ \E token \in Presented, body \in CashoutBodies :
         Cashout(token, body.multiplier, body.amount)
    \/ \E token \in Presented, amount \in DepositAmounts, raw \in RawPhones,
          answer \in ProviderAnswers : StkPush(token, amount, raw, answer)
    \/ \E body \in WebhookBodies : Webhook(body)
    \/ \E id \in 0..MaxDeposits, answer \in StatusAnswers : StatusPoll(id, answer)
    \/ \E token \in Presented, amount \in WithdrawAmounts : Withdraw(token, amount)

WalletSpec == InitQueueVariant /\ [][WalletNext]_vars

\* Cashouts over the first round of the game loop: accounts are opened, the
\* round flies and crashes, and cashout requests arrive in every phase.
PayoutNext ==
    \/ StartFlying
    \/ TickTimer
    \/ \E raw \in RawPhones : Signup(raw)
    \/ \E token \in Presented, body \in CashoutBodies :
         Cashout(token, body.multiplier, body.amount)

PayoutSpec == InitQueueVariant /\ [][PayoutNext]_vars

-----------------------------------------------------------------------------
(* Properties *)

Leq(a, b) == a # NaN /\ b # NaN /\ a <= b

\* the scheduler events of evs that reached observer o
Reached(o, evs) == SelectSeq(RoundEvents(evs), LAMBDA e : o \in e.to)

\* event b may come right after event a in one observer's stream
Follows(a, b) ==
    CASE a.event = "none"        -> TRUE
      [] a.event = "round_start" -> b.event = "fly" /\ b.roundId = a.roundId
      [] a.event = "fly"         -> b.event \in {"tick", "crash"} /\ b.roundId = a.roundId
      [] a.event = "tick"        -> b.event \in {"tick", "crash"} /\ b.roundId = a.roundId
      [] a.event = "crash"       -> b.event = "round_start" /\ b.roundId # a.roundId

PhaseStep ==
    \/ game' = game
    \/ game.status = "waiting" /\ game'.status = "flying" /\ game'.roundId = game.roundId
    \/ /\ game.status = "flying" /\ game'.roundId = game.roundId
       /\ game'.status \in {"flying", "crashed"}
    \/ game.status = "crashed" /\ game'.status = "waiting" /\ game'.roundId # game.roundId

ObserverStep(o) ==
    LET seq == Reached(o, out') IN
    /\ Len(seq) = Len(RoundEvents(out'))
    /\ Len(seq) > 0 => Follows(rcvd[o], seq[1])
    /\ \A i \in 1..(Len(seq) - 1) : Follows(seq[i], seq[i + 1])

\* C1: in every step the phase stays or moves WAITING -> FLYING -> CRASHED ->
\* WAITING (a new round id exactly on the last), and an observer subscribed
\* before and after the step receives every event the scheduler emits in it,
\* each one a legal successor of the one before it in the order round_start,
\* fly, tick*, crash, round_start of the next round.
C1_RoundOrder ==
    [][PhaseStep /\ \A o \in clients \cap clients' : ObserverStep(o)]_vars

\* an observer that has received a whole round, round_start to crash
C1_Witness ==
    \E o \in clients : rcvd[o].whole /\ rcvd[o].event = "crash"

\* C2: no tick event reaches an observer while the phase is WAITING or CRASHED.
C2_NoTickOutsideFlying ==
    \A i \in 1..Len(out) :
        (out[i].event = "tick" /\ out[i].to # {}) => out[i].status = "flying"

\* C3: while FLYING the multiplier is at most the crash target, and a round
\* enters WAITING with multiplier 1.0.
C3_MultiplierBelowTarget ==
    /\ game.status = "flying" => Leq(game.multiplier, game.crashPoint)
    /\ resp.req = "startWaiting" => game.multiplier = 1000

\* C4: every tick event the tick callback delivers to an observer carries a
\* multiplier that is at most the round's crash target.
C4_TickClamped ==
    \A i \in 1..Len(out) :
        (out[i].event = "tick" /\ out[i].src = "tick" /\ out[i].to # {})
            => Leq(out[i].multiplier, game.crashPoint)

\* C5: a tick callback crashes the round exactly when its computed multiplier
\* is >= the crash target; the crash event, game.multiplier and the entry at
\* the front of history then all carry the crash target.
C5_NaturalCrash ==
    (resp.req = "tick" /\ Len(out) > 0) =>
        /\ out[1].event = "tick"
        /\ Geq(out[1].multiplier, game.crashPoint) <=> Len(out) = 2
        /\ Len(out) = 1 => game.status = "flying"
        /\ Len(out) = 2 =>
             /\ out[2].event = "crash"
             /\ out[2].roundId = game.roundId
             /\ out[2].multiplier = game.crashPoint
             /\ game.status = "crashed"
             /\ game.multiplier = game.crashPoint
             /\ history[1] = [id |-> game.roundId, multiplier |-> game.crashPoint]

\* a natural crash on a tick that computed more than the crash target
C5_Witness ==
    /\ resp.req = "tick"
    /\ Len(out) = 2
    /\ out[1].multiplier > game.crashPoint
    /\ game.crashPoint > 1000
    /\ game.status = "crashed"

\* C6: an accepted forced crash with the number X leaves the round CRASHED,
\* emits one crash event with multiplier X for the current round, and puts
\* {round id, X} at the front of history.
C6_ForcedCrashValue ==
    (resp.req = "force-crash" /\ resp.code = 200 /\ resp.at.kind = "number") =>
        /\ game.status = "crashed"
        /\ Len(out) = 1
        /\ out[1].event = "crash"
        /\ out[1].roundId = game.roundId
        /\ out[1].multiplier = resp.at.num
        /\ history[1] = [id |-> game.roundId, multiplier |-> resp.at.num]

\* C7: a forced crash requested while the phase is not FLYING answers 400,
\* emits nothing and changes neither game, history, the queue or pool, nor
\* the pending timers.
C7_ForceRejected ==
    [][(resp'.req = "force-crash" /\ game.status # "flying") =>
          /\ resp'.code = 400
          /\ out' = <<>>
          /\ UNCHANGED <<game, history, crashQueue, nextOid, CRASH_POOL, queueIdx,
                         flyTimers, waitTimers, tickTimers, clients>>]_vars

\* a forced crash rejected in CRASHED, the startWaiting timeout still pending
C7_Witness ==
    /\ resp.req = "force-crash"
    /\ resp.code = 400
    /\ game.status = "crashed"
    /\ waitTimers = 1

\* C8: a round started while numbers of an accepted pool are still to be
\* drawn has the first of them as its crash target, and the crash-pool
\* request itself leaves the round in progress as it is.
C8_InjectedOrder ==
    [][/\ (resp'.req = "startWaiting" /\ injected # <<>>
                /\ Head(injected).kind = "number")
            => game'.crashPoint = Head(injected).num
       /\ resp'.req = "crash-pool" => game' = game]_vars

\* the second round after the injection of [2.0, 3.0] in the queue variant
C8_Witness ==
    /\ variant = "queue"
    /\ game.crashPoint = 3000
    /\ history[1].multiplier = 2000
    /\ injected = <<>>

\* C9: in the queue variant the queue holds at least QUEUE_SIZE entries.
C9_QueueDepth ==
    variant = "queue" => Len(crashQueue) >= QUEUE_SIZE

\* a pool shorter than QUEUE_SIZE was injected and padded
C9_Witness ==
    /\ variant = "queue"
    /\ resp.req = "crash-pool"
    /\ resp.code = 200
    /\ Len(resp.pool) < QUEUE_SIZE
    /\ Len(crashQueue) = QUEUE_SIZE

\* C10: with the timers firing, a round that is FLYING is eventually CRASHED
\* and a CRASHED round is followed by a new round in WAITING (as long as
\* round ids are left).
C10_RoundsRepeat ==
    /\ (game.status = "flying") ~> (game.status = "crashed")
    /\ (game.status = "crashed" /\ game.roundId < MaxRounds)
          ~> (game.status = "waiting")

\* C11: game.roundId and game.crashPoint change only in a startWaiting step,
\* the one that enters WAITING; every other timer callback and every request
\* (force-crash, crash-pool, bet, cashout, reads) leaves both as they are.
C11_IdAndTargetFixed ==
    [][(game'.roundId # game.roundId \/ game'.crashPoint # game.crashPoint)
          => (resp'.req = "startWaiting" /\ game'.status = "waiting")]_vars

\* a pool accepted in mid-flight whose first value is not the target in flight
C11_Witness ==
    /\ resp.req = "crash-pool"
    /\ resp.code = 200
    /\ game.status = "flying"
    /\ game.multiplier > 1000
    /\ resp.queue[1] # game.crashPoint

\* C12: within one round (same roundId) game.multiplier never decreases from
\* one state to the next, whichever way the round ends.
C12_MultiplierMonotone ==
    [][game'.roundId = game.roundId
          => game'.multiplier >= game.multiplier]_vars

\* C13: at most one of the two phase timeouts is pending, and it is the one
\* of the current phase: setTimeout(startFlying) in WAITING, none in FLYING,
\* setTimeout(startWaiting) in CRASHED; and no round id has two history
\* entries (no round crashed twice).
C13_OneTimer ==
    /\ flyTimers + waitTimers <= 1
    /\ flyTimers = (IF game.status = "waiting" THEN 1 ELSE 0)
    /\ waitTimers = (IF game.status = "crashed" THEN 1 ELSE 0)
    /\ \A i, j \in 1..Len(history) :
          history[i].id = history[j].id => i = j

\* a forced crash in the second round, its tick interval still registered
C13_Witness ==
    /\ resp.req = "force-crash"
    /\ resp.code = 200
    /\ game.roundId = 2
    /\ game.roundId \in tickTimers
    /\ waitTimers = 1

\* C14: a tick callback that fires when the status is no longer flying, or
\* for a round id other than the current one, broadcasts nothing, changes
\* nothing and clears its own interval; and every tick or crash event that is
\* broadcast is for the current round and comes out of a FLYING state.
C14_StaleTickInert ==
    [][/\ (resp'.req = "tick"
            /\ (game.status # "flying" \/ game.roundId # resp'.timer))
          => /\ out' = <<>>
             /\ tickTimers' = tickTimers \ {resp'.timer}
             /\ UNCHANGED <<game, history, crashQueue, nextOid, CRASH_POOL,
                            queueIdx, flyTimers, waitTimers, clients, rcvd>>
       /\ \A i \in 1..Len(out') :
             out'[i].src \in {"tick", "doCrash"}
                => out'[i].roundId = game.roundId /\ game.status = "flying"]_vars

\* the interval of a round that was crashed by force fires in the flight of
\* the next round
C14_Witness ==
    /\ resp.req = "tick"
    /\ resp.timer # game.roundId
    /\ game.status = "flying"
    /\ out = <<>>
    /\ history[1].id = resp.timer

\* C15: history never holds more than HISTORY_CAP entries; a crash puts one
\* entry at the front and keeps the rest in order, and when the ring is full
\* it drops exactly the last (oldest) entry.
C15_HistoryCapped ==
    [][/\ Len(history) <= HISTORY_CAP
       /\ Len(history') <= HISTORY_CAP
       /\ history' # history =>
             IF Len(history) < HISTORY_CAP
             THEN Tail(history') = history
             ELSE Tail(history') = SubSeq(history, 1, HISTORY_CAP - 1)]_vars

\* the seventh crash has evicted the last of the 14 preset entries
C15_Witness ==
    /\ Len(history) = HISTORY_CAP
    /\ history[1].id = 7
    /\ history[HISTORY_CAP].id = 0 - 13

\* the rounds that have crashed so far
Completed == IF game.status = "crashed" THEN game.roundId ELSE game.roundId - 1

\* C16: the rounds that have crashed each have exactly one history entry; the
\* entries of the rounds lie in front of the preset ones, most recent round
\* first; and in CRASHED the front entry carries the current round id and the
\* round's final multiplier.
C16_OneEntryPerRound ==
    /\ \A i \in 1..Len(history) :
          IF i <= Completed
          THEN history[i].id = Completed - i + 1
          ELSE history[i] = SeedHistory(IF variant = "queue"
                                        THEN InitialHistoryQ
                                        ELSE InitialHistoryP)[i - Completed]
    /\ Len(history) >= Completed
    /\ game.status = "crashed"
          => history[1] = [id |-> game.roundId, multiplier |-> game.multiplier]

\* three rounds recorded, the middle one ended by a forced crash at 2.5
C16_Witness ==
    /\ Completed = 3
    /\ history[1].id = 3
    /\ history[2] = [id |-> 2, multiplier |-> 2500]
    /\ history[3].id = 1
    /\ Len(history) = 17

\* the observers whose write threw in the last broadcast
Lost(evs) == UNION {evs[i].lost : i \in 1..Len(evs)}

\* C17: when the write to an observer throws during a broadcast, that
\* observer is removed from clients, every event of the broadcast is still
\* written to every other observer, the handler finishes (a crash still arms
\* its timeout, startWaiting and startFlying theirs), and an observer that is
\* not subscribed is written nothing: its handle is never handed out again.
C17_FailureEvicts ==
    [][/\ (Lost(out') # {} /\ resp'.req # "stream") =>
            /\ clients' = clients \ Lost(out')
            /\ \A i \in 1..Len(out') : out'[i].to = clients \ Lost(out')
            /\ resp'.req = "startWaiting" =>
                  game'.status = "waiting" /\ flyTimers' = flyTimers + 1
            /\ resp'.req = "startFlying" =>
                  game'.status = "flying" /\ game.roundId \in tickTimers'
            /\ (\E i \in 1..Len(out') : out'[i].event = "crash") =>
                  game'.status = "crashed" /\ waitTimers' = waitTimers + 1
       /\ \A i \in 1..Len(out') : out'[i].to \subseteq clients'
       /\ clients' \ clients \subseteq {nextObs}
       /\ nextObs' >= nextObs
       /\ \A o \in clients : o < nextObs]_vars

\* a crash broadcast whose write to the first observer threw and whose write
\* to the second went through
C17_Witness ==
    /\ Len(out) = 2
    /\ out[2].event = "crash"
    /\ out[2].lost = {1}
    /\ out[2].to = {2}
    /\ clients = {2}
    /\ rcvd[2].event = "crash"

\* C18: an observer subscribed before and after a broadcast is written every
\* event of it, in the order of the broadcast calls; and a connection that is
\* being opened is written the heartbeat of /api/stream and no event of the
\* round (nothing published before is replayed).
C18_NoGapNoReplay ==
    [][/\ resp'.req # "stream" =>
            \A i \in 1..Len(out') :
                /\ out'[i].to = clients \cap clients'
                /\ out'[i].to \cup out'[i].lost = clients
       /\ resp'.req = "stream" =>
            /\ Len(out') = 1
            /\ out'[1].event = "heartbeat"
            /\ out'[1].to \cup out'[1].lost = {nextObs}
            /\ rcvd'[nextObs] = NoEvent
            /\ \A o \in clients : rcvd'[o] = rcvd[o]]_vars

\* the second observer connects in mid-flight, after the first has received
\* the round's fly event, and has been sent the heartbeat only
C18_Witness ==
    /\ resp.req = "stream"
    /\ game.status = "flying"
    /\ clients = {1, 2}
    /\ rcvd[1].event \in {"fly", "tick"}
    /\ rcvd[2] = NoEvent
    /\ out[1].to = {2}

\* C19: a force-crash request whose body.at is not a number (a text, or
\* absent) answers 400, broadcasts nothing and changes neither game, history
\* nor the timers.
C19_ForceNeedsNumber ==
    [][(resp'.req = "force-crash" /\ resp'.at.kind # "number") =>
          /\ resp'.code = 400
          /\ out' = <<>>
          /\ UNCHANGED <<game, history, flyTimers, waitTimers, tickTimers>>]_vars

\* the invalid elements of a body.pool
Invalid(pool) == {i \in 1..Len(pool) : pool[i].kind # "number"}

\* C20: a crash-pool request whose pool is missing, not an array, empty, or
\* holds a non-numeric element answers 400 and leaves crashQueue (or
\* CRASH_POOL and queueIdx) as it was.
C20_InjectValidated ==
    [][(resp'.req = "crash-pool"
            /\ (resp'.pool = <<>> \/ Invalid(resp'.pool) # {})) =>
          /\ resp'.code = 400
          /\ UNCHANGED <<crashQueue, nextOid, CRASH_POOL, queueIdx>>]_vars

\* C21: upcoming outcomes with their positions are answered only to a
\* request for /api/signal that carries the secret key; a signal request with
\* a wrong or missing key answers 403 and carries no outcome; and with the
\* right key entry i has position i and the multiplier peekQueue returns at i.
C21_SignalGated ==
    /\ resp.upcoming # <<>> => (resp.req = "signal" /\ resp.key = SIGNAL_SECRET)
    /\ (resp.req = "signal" /\ resp.key # SIGNAL_SECRET) =>
          /\ resp.code = 403
          /\ resp.upcoming = <<>> /\ resp.queue = <<>> /\ resp.state = <<>>
    /\ (resp.req = "signal" /\ resp.key = SIGNAL_SECRET) =>
          /\ resp.code = 200
          /\ Len(resp.upcoming) >= Len(peekQueueQ(crashQueue))
          /\ \A i \in 1..Len(peekQueueQ(crashQueue)) :
                /\ resp.upcoming[i].position = i
                /\ resp.upcoming[i].multiplier = peekQueueQ(crashQueue)[i]

\* C22: a crash-pool request that arrives through the public player server
\* (the path of an ordinary client, no administrative credential) changes
\* neither crashQueue nor CRASH_POOL and queueIdx.
C22_InjectPrivileged ==
    [][(resp'.req = "crash-pool" /\ resp'.via = "player")
          => UNCHANGED <<crashQueue, CRASH_POOL, queueIdx>>]_vars

\* C23: a bet and a cashout request, accepted or not and in whatever phase,
\* leave game, the queue (or pool and index), history and the pending
\* timeouts and tick intervals as they were.
C23_BetsLeaveRound ==
    [][resp'.req \in {"bet", "cashout"} =>
          UNCHANGED <<game, crashQueue, nextOid, CRASH_POOL, queueIdx, history,
                      flyTimers, waitTimers, tickTimers>>]_vars

\* a bet accepted in mid-flight and broadcast to an observer, the round's
\* tick interval still live
C23_Witness ==
    /\ resp.req = "bet"
    /\ resp.code = 200
    /\ game.status = "flying"
    /\ game.multiplier > 1000
    /\ game.roundId \in tickTimers
    /\ Len(out) = 1
    /\ out[1].event = "bet_placed"
    /\ out[1].to # {}

\* the handlers that only read: /api/stream and its close, /api/game/state,
\* /api/signal, /signal/data
ReadRequests == {"stream", "close", "state", "signal", "signal-data"}

\* the timer callbacks of the game loop and the two administrative requests
Mutators == {"startWaiting", "startFlying", "tick", "force-crash", "crash-pool"}

\* C24: subscribing, unsubscribing, reading the state snapshot and reading
\* the upcoming queue leave game, crashQueue (CRASH_POOL and queueIdx) and
\* history as they were; a step that changes any of them is a timer callback
\* of the game loop, a force-crash or a crash-pool request.
C24_ReadsLeaveState ==
    [][/\ resp'.req \in ReadRequests =>
             UNCHANGED <<game, crashQueue, CRASH_POOL, queueIdx, history>>
       /\ ~ UNCHANGED <<game, crashQueue, CRASH_POOL, queueIdx, history>> =>
             resp'.req \in Mutators]_vars

\* a state read in the flight of the second round, in the queue variant
\* (peekQueue has called fillQueue)
C24_Witness ==
    /\ resp.req = "state"
    /\ variant = "queue"
    /\ game.status = "flying"
    /\ game.roundId = 2
    /\ Len(resp.state[1].queue) = 5
    /\ Len(crashQueue) = QUEUE_SIZE

\* the ids of the entries of a queue, or of an upcoming answer
Ids(q) == {q[i].id : i \in 1..Len(q)}

\* C25: in the queue variant startWaiting takes the entry at the front as the
\* round's target, keeps the rest in order and appends fresh entries at the
\* tail; the ids in the queue are distinct and ascending, no step brings back
\* an id below the front one, the front id grows with every consumption (so
\* a consumed id is never in the queue again), and an upcoming answer shows
\* only ids that are in the queue.
C25_ConsumedOnce ==
    [][variant = "queue" =>
         /\ resp'.req = "startWaiting" =>
               /\ game'.crashPoint = Head(crashQueue).multiplier
               /\ SubSeq(crashQueue', 1, Len(crashQueue) - 1) = Tail(crashQueue)
               /\ \A i \in Len(crashQueue)..Len(crashQueue') :
                     crashQueue'[i].id >= nextOid
               /\ Head(crashQueue).id \notin Ids(crashQueue')
               /\ Head(crashQueue').id > Head(crashQueue).id
         /\ \A i \in 1..Len(crashQueue') :
               /\ crashQueue'[i].id >= Head(crashQueue).id
               /\ crashQueue'[i].id < nextOid'
               /\ i > 1 => crashQueue'[i].id > crashQueue'[i - 1].id
         /\ Ids(resp'.upcoming) \subseteq Ids(crashQueue') \cup {0}]_vars

\* the third round has started, no injection: entries 1 to 4 are consumed,
\* the queue holds 5 to 14
C25_Witness ==
    /\ variant = "queue"
    /\ resp.req = "startWaiting"
    /\ game.roundId = 3
    /\ Head(crashQueue).id = 5
    /\ crashQueue[QUEUE_SIZE].id = 14
    /\ nextOid = 15

\* a number above 1.0
AboveOne(v) == v # NaN /\ v > 1000

\* C26: every entry of crashQueue, every element of CRASH_POOL and the crash
\* target of the round is a number above 1.0.
C26_OutcomesAboveOne ==
    /\ \A i \in 1..Len(crashQueue) : AboveOne(crashQueue[i].multiplier)
    /\ \A i \in 1..Len(CRASH_POOL) : AboveOne(CRASH_POOL[i])
    /\ AboveOne(game.crashPoint)

\* C27: in the replay-pool variant queueIdx counts the draws since the load
\* or the last accepted crash-pool request; the round started by the draw
\* after k - 1 others has the target CRASH_POOL[(k - 1) mod length]; an
\* accepted crash-pool request sets queueIdx to 0, so that the next draw is
\* the first element of the new pool; nothing else moves the index or the
\* pool.
C27_CyclicPool ==
    [][variant = "pool" =>
         /\ resp'.req = "startWaiting" =>
               /\ game'.crashPoint = CRASH_POOL[(queueIdx % Len(CRASH_POOL)) + 1]
               /\ queueIdx' = queueIdx + 1
               /\ CRASH_POOL' = CRASH_POOL
         /\ (resp'.req = "crash-pool" /\ resp'.code = 200) =>
               /\ queueIdx' = 0
               /\ Len(CRASH_POOL') = Len(resp'.pool)
         /\ (resp'.req # "startWaiting"
                /\ ~ (resp'.req = "crash-pool" /\ resp'.code = 200)) =>
               UNCHANGED <<queueIdx, CRASH_POOL>>]_vars

\* what peekQueue() returns when called in the current state
Peek ==
    IF variant = "queue" THEN peekQueueQ(crashQueue)
    ELSE peekQueueP(CRASH_POOL, queueIdx)

\* C28: peekQueue() returns five entries, the front of the queue in queue
\* order, and leaves the queue as it is: a state read answers them.  A
\* startWaiting gives the round the first entry a peek before it returned,
\* moves entries 2 to 5 up by one, and carries the new peek as the queue of
\* round_start.  No other step but an accepted crash-pool request changes
\* what a peek returns.
C28_PeekIsNextRounds ==
    [][/\ Len(Peek) = 5
       /\ variant = "queue" => \A i \in 1..5 : Peek[i] = crashQueue[i].multiplier
       /\ resp'.req = "state" =>
             /\ resp'.state[1].queue = Peek
             /\ UNCHANGED <<crashQueue, CRASH_POOL, queueIdx>>
       /\ resp'.req = "startWaiting" =>
             /\ game'.crashPoint = Peek[1]
             /\ \A i \in 1..4 : Peek'[i] = Peek[i + 1]
             /\ out'[1].event = "round_start"
             /\ out'[1].queue = Peek'
       /\ (resp'.req # "startWaiting"
              /\ ~ (resp'.req = "crash-pool" /\ resp'.code = 200)) =>
             Peek' = Peek]_vars

\* C29: the payload a state read answers is the state the server is in when
\* the handler returns: round id, status, multiplier, startTime, target and
\* nextEventTime are those of game, the history is history, the queue is
\* what peekQueue returns, all of one and the same state.
C29_SnapshotConsistent ==
    resp.req = "state" =>
        /\ Len(resp.state) = 1
        /\ resp.state[1].roundId = game.roundId
        /\ resp.state[1].status = game.status
        /\ resp.state[1].currentMultiplier = game.multiplier
        /\ resp.state[1].startTime = game.startTime
        /\ resp.state[1].target = game.crashPoint
        /\ resp.state[1].nextEventTime = game.nextEventTime
        /\ resp.state[1].history = history
        /\ resp.state[1].queue = Peek

\* a state read right after a forced crash of the second round: the payload
\* shows the round crashed and its entry at the front of the history
C29_Witness ==
    /\ resp.req = "state"
    /\ resp.state[1].status = "crashed"
    /\ resp.state[1].roundId = 2
    /\ resp.state[1].history[1] = [id |-> 2, multiplier |-> 2500]
    /\ resp.state[1].currentMultiplier = 2500
    /\ resp.state[1].target # 2500

\* C30: game.startTime is set exactly while the status is flying: it is null
\* in every waiting and in every crashed state.
C30_StartTimeOnlyFlying ==
    (game.startTime # "null") <=> (game.status = "flying")

\* C31: game.nextEventTime is null exactly while the status is flying; in
\* waiting it is the deadline of the pending startFlying timeout and in
\* crashed, after a natural or a forced crash alike, the deadline of the
\* pending startWaiting timeout.
C31_NextEventTime ==
    /\ (game.nextEventTime = "null") <=> (game.status = "flying")
    /\ game.status = "waiting" =>
          game.nextEventTime = "now+WAIT_MS" /\ flyTimers = 1
    /\ game.status = "crashed" =>
          game.nextEventTime = "now+CRASH_PAUSE" /\ waitTimers = 1

\* the round has just been crashed by force
C31_Witness ==
    /\ resp.req = "force-crash"
    /\ resp.code = 200
    /\ game.status = "crashed"
    /\ game.nextEventTime = "now+CRASH_PAUSE"
    /\ waitTimers = 1

-----------------------------------------------------------------------------

\* the entry the last addTransaction recorded
lastTx(txs) == txs[Len(txs)]

\* C32: a cashout that credits a payout does so outside the waiting phase and
\* applies a multiplier that is at most the multiplier of the round in
\* progress at that moment (so not one the caller chose above it).
C32_PayoutFromRound ==
    [][(resp'.req = "cashout" /\ transactions' # transactions) =>
          /\ game.status # "waiting"
          /\ lastTx(transactions').mult <= game.multiplier]_vars

-----------------------------------------------------------------------------

\* the names and the multipliers of a sequence of events
Names(evs) == [i \in 1..Len(evs) |-> evs[i].event]
Mults(evs) == [i \in 1..Len(evs) |-> evs[i].multiplier]

\* the multipliers a tick callback may compute when it fires at clock
TickValues(clock) ==
    {getMultiplierAtTime(laterClock(clock, periods)) : periods \in 1..MaxSkip}

\* One step of the scheduler, told without naming the server variant: from
\* round g and clock, on the firing kind with the crash target fed (a
\* startWaiting), the multiplier computed (a tick) or the value forced (a
\* force-crash), the round h it leaves and the events evs it emits.
SchedulerStep(kind, g, clock, at, h, evs) ==
    CASE kind = "startWaiting" ->
           /\ g.status = "crashed"
           /\ h = [roundId |-> g.roundId + 1, status |-> "waiting",
                   multiplier |-> 1000, startTime |-> "null",
                   crashPoint |-> h.crashPoint, nextEventTime |-> "now+WAIT_MS"]
           /\ Names(evs) = <<"round_start", "heartbeat">>
           /\ Mults(evs) = <<h.crashPoint, 1000>>
      [] kind = "startFlying" ->
           /\ g.status = "waiting"
           /\ h = [g EXCEPT !.status = "flying", !.multiplier = 1000,
                            !.startTime = "now", !.nextEventTime = "null"]
           /\ Names(evs) = <<"fly">>
      [] kind = "tick" ->
           IF evs = <<>>
           THEN h = g
           ELSE /\ g.status = "flying"
                /\ evs[1].event = "tick"
                /\ evs[1].multiplier \in TickValues(clock)
                /\ IF Geq(evs[1].multiplier, g.crashPoint)
                   THEN /\ Names(evs) = <<"tick", "crash">>
                        /\ evs[2].multiplier = g.crashPoint
                        /\ h = [g EXCEPT !.status = "crashed",
                                         !.multiplier = g.crashPoint,
                                         !.nextEventTime = "now+CRASH_PAUSE"]
                   ELSE /\ Names(evs) = <<"tick">>
                        /\ h = [g EXCEPT !.multiplier = evs[1].multiplier]
      [] kind = "force-crash" ->
           IF g.status = "flying"
           THEN /\ Names(evs) = <<"crash">>
                /\ Mults(evs) = <<OrDefault(parseFloat(at), 1500)>>
                /\ h = [g EXCEPT !.status = "crashed",
                                 !.multiplier = OrDefault(parseFloat(at), 1500),
                                 !.nextEventTime = "now+CRASH_PAUSE"]
           ELSE h = g /\ evs = <<>>

\* C33: in the queue variant and in the replay-pool variant alike, every
\* firing of startWaiting, startFlying and the tick callback and every
\* force-crash request moves the round and emits round_start, fly, tick and
\* crash events as one and the same step function says, which takes the
\* phase, the crash target fed and the schedule, and not the variant: the two
\* servers, fed the same targets on the same schedule, go through the same
\* phases and emit the same events with the same multipliers.
C33_SameScheduler ==
    [][resp'.req \in {"startWaiting", "startFlying", "tick", "force-crash"} =>
          SchedulerStep(resp'.req, game, elapsed, resp'.at, game', out')]_vars

\* the replay-pool server has crashed its second round on a tick that
\* computed more than the target
C33_Witness ==
    /\ variant = "pool"
    /\ resp.req = "tick"
    /\ Names(out) = <<"tick", "crash">>
    /\ out[1].multiplier > game.crashPoint
    /\ out[2].multiplier = game.crashPoint
    /\ game.status = "crashed"
    /\ game.roundId = 2

-----------------------------------------------------------------------------

\* the outcomes taken so far by nextCrashPoint(), while no pool was injected:
\* the ids below the front of the queue, or the index into the replay pool
Consumed == IF variant = "queue" THEN Head(crashQueue).id - 1 ELSE queueIdx

\* C34: every outcome taken from the queue or the replay pool is the target
\* of a round that startWaiting announced: as long as no pool is injected,
\* as many outcomes are consumed as rounds were started.
C34_ConsumedIsPlayed == injects = 0 => Consumed = game.roundId

-----------------------------------------------------------------------------

\* the ledger entries that credit the deposit stored under key
Credits(key) ==
    {i \in 1..Len(transactions) :
        transactions[i].type = "deposit" /\ transactions[i].ref = key}

\* C35: whatever webhooks and status polls arrive, in whatever order, the
\* ledger holds at most one deposit entry for each pending deposit.
C35_CreditedOnce == \A key \in 1..MaxDeposits : Cardinality(Credits(key)) <= 1

-----------------------------------------------------------------------------

\* a step that confirms a payment as successful: a webhook that records no
\* failure, or a status poll
Confirms ==
    /\ resp'.req \in {"webhook", "status"}
    /\ resp'.code = 200
    /\ ~ (Len(transactions') > Len(transactions)
            /\ lastTx(transactions').type = "deposit_failed")

\* C36: a step that confirms a payment and takes a deposit out of the pending
\* set credits its amount to the user who initiated it, whatever that user
\* did since (a login included).
C36_ConfirmedIsCredited ==
    [][Confirms =>
         \A key \in DOMAIN pendingDeposits \ DOMAIN pendingDeposits' :
            dbUsers'[pendingDeposits[key].userId].balance =
               dbUsers[pendingDeposits[key].userId].balance
                  + pendingDeposits[key].amount]_vars

-----------------------------------------------------------------------------

\* C37: in the queue variant no step leaves a user with a negative balance,
\* and a bet or a withdrawal leaves no user's balance higher than it was.
C37_BalanceBounds ==
    [][/\ \A u \in 1..Len(dbUsers') : dbUsers'[u].balance >= 0
       /\ resp'.req \in {"bet", "withdraw"} =>
             \A u \in 1..Len(dbUsers) :
                dbUsers'[u].balance <= dbUsers[u].balance]_vars

-----------------------------------------------------------------------------

\* the sum of the amounts of the ledger entries recorded for user
RECURSIVE LedgerSum(_, _)
LedgerSum(txs, user) ==
    IF txs = <<>> THEN 0
    ELSE LedgerSum(SubSeq(txs, 1, Len(txs) - 1), user)
           + (IF lastTx(txs).userId = user THEN lastTx(txs).amount ELSE 0)

\* C38: in the queue variant, after every step each user's balance is the
\* sum of the amounts the ledger holds for that user, and a bet or a
\* withdrawal answered 400 or 401 leaves the balances and the ledger as they
\* were.
C38_BalanceIsLedgerSum ==
    [][/\ \A u \in 1..Len(dbUsers') :
             dbUsers'[u].balance = LedgerSum(transactions', u)
       /\ (resp'.req \in {"bet", "withdraw"} /\ resp'.code \in {400, 401}) =>
             UNCHANGED <<dbUsers, transactions>>]_vars

\* a withdrawal refused for insufficient balance after a credited deposit
\* and a bet of the whole balance
C38_Witness ==
    /\ resp.req = "withdraw"
    /\ resp.code = 400
    /\ Len(transactions) = 2
    /\ transactions[1].type = "deposit"
    /\ transactions[2].type = "bet"
    /\ dbUsers[transactions[2].userId].balance = 0

-----------------------------------------------------------------------------

\* the tokens that authenticate user in the users map m
TokensOf(m, user) == {t \in DOMAIN m : m[t] = user}

\* C39: in the queue variant, after every signup and login each user is
\* authenticated by exactly one token, the one stored as its accessToken, no
\* two users have the same token, and an accepted login issues a fresh token
\* that authenticates the user while the token it replaces authenticates
\* nobody.
C39_OneTokenPerUser ==
    [][/\ \A u \in 1..Len(dbUsers') :
             TokensOf(users', u) = {dbUsers'[u].accessToken}
       /\ \A u, v \in 1..Len(dbUsers') :
             dbUsers'[u].accessToken = dbUsers'[v].accessToken => u = v
       /\ (resp'.req = "login" /\ resp'.code = 200) =>
             \E u \in 1..Len(dbUsers) :
                /\ dbUsers'[u].accessToken = nextToken
                /\ dbUsers[u].accessToken \notin DOMAIN users'
                /\ users'[nextToken] = u
                /\ \A v \in 1..Len(dbUsers) :
                      v # u => dbUsers'[v].accessToken = dbUsers[v].accessToken]_vars

\* the first of two users has logged in again: its token 1 is replaced by
\* token 3, the second user keeps token 2
C39_Witness ==
    /\ resp.req = "login"
    /\ resp.code = 200
    /\ Len(dbUsers) = 2
    /\ dbUsers[1].accessToken = 3
    /\ dbUsers[2].accessToken = 2
    /\ DOMAIN users = {2, 3}

====
